---------------------------- MODULE Spec2Model ----------------------------
(***************************************************************************)
(* slamdunk: the Resolver (resolver.go), the RegionProbe (s3_utils.go),    *)
(* the playbook and the Auditor.  Program strings are sequences of         *)
(* one-character strings, so that strings.Contains, TrimPrefix, TrimSuffix *)
(* and the two CNAME regular expressions are computed as the code computes *)
(* them.  SDK error codes, program positions, the identities of the        *)
(* returned errors, and the action and bucket names of the audit command   *)
(* are TLA+ strings: the code only compares them.                          *)
(***************************************************************************)
EXTENDS Integers, Sequences, FiniteSets, TLC

(***************************************************************************)
(* Bounds of the model.                                                    *)
(***************************************************************************)
\* how many times the resolve command's loop calls Resolve
MaxCalls == 2

(***************************************************************************)
(* String literals of the source.                                          *)
(***************************************************************************)
NoBucket == <<"N","o"," ","b","u","c","k","e","t"," ","f","o","u","n","d">>
SomeBucket == <<"S","o","m","e"," ","S","3"," ","B","u","c","k","e","t">>
NoRegion == <<"N","o"," ","r","e","g","i","o","n"," ","f","o","u","n","d">>
AmazonS3 == <<"A","m","a","z","o","n","S","3">>
AmazonawsCom == <<"a","m","a","z","o","n","a","w","s",".","c","o","m">>
DotAmazonawsCom == <<".","a","m","a","z","o","n","a","w","s",".","c","o","m">>
Http == <<"h","t","t","p">>
HttpScheme == <<"h","t","t","p",":","/","/">>
HttpsScheme == <<"h","t","t","p","s",":","/","/">>
NoSuchBucketLit == <<"N","o","S","u","c","h","B","u","c","k","e","t">>
PermanentRedirectLit == <<"P","e","r","m","a","n","e","n","t","R","e","d","i","r","e","c","t">>
UsEast1 == <<"u","s","-","e","a","s","t","-","1">>
UsEast2 == <<"u","s","-","e","a","s","t","-","2">>
UsWest1 == <<"u","s","-","w","e","s","t","-","1">>
UsWest2 == <<"u","s","-","w","e","s","t","-","2">>
CnNorth1 == <<"c","n","-","n","o","r","t","h","-","1">>
CnNorthwest1 == <<"c","n","-","n","o","r","t","h","w","e","s","t","-","1">>
\* the literal pieces of the two CNAME patterns
S3Dash == <<"s","3","-">>
S3Lit == <<"s","3">>
Amazonaws == <<"a","m","a","z","o","n","a","w","s">>
Com == <<"c","o","m">>
ComSlash == <<"c","o","m","/">>
Empty == <<>>

(***************************************************************************)
(* The strings the environment supplies: URLs given on the command line,   *)
(* header values, DNS answers and the texts of XML elements.               *)
(***************************************************************************)
UrlPlain == <<"a",".","c","o">>
UrlFull == <<"h","t","t","p",":","/","/","a",".","c","o","/">>
UrlS3 == <<"b",".","s","3",".","a","m","a","z","o","n","a","w","s",".","c","o","m">>
EuWest3 == <<"e","u","-","w","e","s","t","-","3">>
AccessDeniedLit == <<"A","c","c","e","s","s","D","e","n","i","e","d">>
CnameVirtual == <<"b",".","s","3",".","r",".","a","m","a","z","o","n","a","w","s",".","c","o","m">>
CnamePath == <<"s","3","-","r",".","a","m","a","z","o","n","a","w","s",".","c","o","m","/","b">>
CnameLegacy == <<"b",".","s","3",".","a","m","a","z","o","n","a","w","s",".","c","o","m">>
CnameOther == <<"c",".","n","e","t">>
CnameSelfDot == <<"a",".","c","o",".">>
NameDeleted == <<"d">>
NamePublic == <<"p">>

(***************************************************************************)
(* package strings, as used by the source.                                 *)
(***************************************************************************)
\* s[i .. i+Len(lit)-1] = lit
IsAt(s, i, lit) ==
    /\ i >= 1
    /\ i + Len(lit) - 1 =< Len(s)
    /\ \A k \in 1..Len(lit) : s[i + k - 1] = lit[k]

\* strings.Contains
Contains(s, sub) == \E i \in 1..(Len(s) + 1) : IsAt(s, i, sub)

\* strings.TrimPrefix
TrimPrefix(s, p) ==
    IF IsAt(s, 1, p) THEN SubSeq(s, Len(p) + 1, Len(s)) ELSE s

\* strings.TrimSuffix
TrimSuffix(s, p) ==
    IF Len(p) =< Len(s) /\ IsAt(s, Len(s) - Len(p) + 1, p)
    THEN SubSeq(s, 1, Len(s) - Len(p))
    ELSE s

SetMin(S) == CHOOSE x \in S : \A y \in S : x =< y
SetMax(S) == CHOOSE x \in S : \A y \in S : x >= y

\* no character of s[a..b] is c
NoneIs(s, a, b, c) == \A k \in a..b : s[k] # c

(***************************************************************************)
(* GenerateUrlPair: the full URL for the HTTP GET and the relative URL for *)
(* DNS and comparisons.                                                    *)
(***************************************************************************)
GenerateUrlPair(url) ==
    IF ~Contains(url, Http)
    THEN [fullUrl |-> HttpScheme \o url, relativeUrl |-> url]
    ELSE LET stripped ==
                 IF Contains(url, HttpScheme) THEN TrimPrefix(url, HttpScheme)
                 ELSE IF Contains(url, HttpsScheme) THEN TrimPrefix(url, HttpsScheme)
                 ELSE Empty
         IN [fullUrl |-> url, relativeUrl |-> TrimSuffix(stripped, <<"/">>)]

(***************************************************************************)
(* GetCNAME: answer is the result of net.LookupCNAME, [err, cname].  The   *)
(* caller drops the error, so the result is the returned string alone.     *)
(***************************************************************************)
GetCNAME(url, answer) ==
    IF answer.err THEN Empty
    ELSE LET cname == TrimSuffix(answer.cname, <<".">>)
             u == TrimSuffix(url, <<".">>)
         IN IF cname = Empty \/ cname = u THEN Empty ELSE cname

(***************************************************************************)
(* expr1: s3-(?P<region>[^.]+).amazonaws.com/(?P<bucket>[^/]+)             *)
(* A match starting at i with the region ending at j: "s3-" at i, the      *)
(* region s[i+3..j] without '.', any character, "amazonaws", any           *)
(* character, "com/", and at least one character that is not '/'.          *)
(* FindStringSubmatch takes the leftmost start and, greedily, the longest  *)
(* region and bucket.                                                      *)
(***************************************************************************)
Expr1Matches(s) ==
    LET R == 1..Len(s)
        I == {i \in R : IsAt(s, i, S3Dash)}
        \* j: ".amazonaws.com/" and one character of the bucket follow the region
        J == {j \in R : /\ IsAt(s, j + 2, Amazonaws)
                        /\ j + 11 =< Len(s)
                        /\ IsAt(s, j + 12, ComSlash)
                        /\ j + 16 =< Len(s)
                        /\ s[j + 16] # "/"}
        heads == {h \in I \X J : h[2] >= h[1] + 3 /\ NoneIs(s, h[1] + 3, h[2], ".")}
    IN IF heads = {} THEN <<>>
       ELSE LET i == SetMin({h[1] : h \in heads})
                j == SetMax({h[2] : h \in {g \in heads : g[1] = i}})
                e == SetMax({ee \in (j + 16)..Len(s) : NoneIs(s, j + 16, ee, "/")})
            IN <<SubSeq(s, i, e), SubSeq(s, i + 3, j), SubSeq(s, j + 16, e)>>

(***************************************************************************)
(* expr2: (?P<bucket>[^/]+).s3.(?P<region>[^.]+).amazonaws.com             *)
(* A match starting at i with the bucket ending at j and the region at k.  *)
(***************************************************************************)
Expr2Matches(s) ==
    LET R == 1..Len(s)
        \* j: ".s3." follows the bucket; k: ".amazonaws.com" follows the region
        J == {j \in R : IsAt(s, j + 2, S3Lit) /\ j + 4 =< Len(s)}
        K == {k \in R : IsAt(s, k + 2, Amazonaws) /\ k + 11 =< Len(s) /\ IsAt(s, k + 12, Com)}
        tails == {t \in J \X K : t[2] >= t[1] + 5 /\ NoneIs(s, t[1] + 5, t[2], ".")}
        starts == {i \in R : \E t \in tails : t[1] >= i /\ NoneIs(s, i, t[1], "/")}
    IN IF starts = {} THEN <<>>
       ELSE LET i == SetMin(starts)
                j == SetMax({t[1] : t \in {u \in tails : u[1] >= i /\ NoneIs(s, i, u[1], "/")}})
                k == SetMax({t[2] : t \in {u \in tails : u[1] = j}})
            IN <<SubSeq(s, i, k + 14), SubSeq(s, i, j), SubSeq(s, j + 5, k)>>

(***************************************************************************)
(* RegionProbe.  An outcome is what svc.HeadBucket returned: no error, an  *)
(* awserr.Error with a code, or an error of another type.                  *)
(***************************************************************************)
GetRegions == <<UsEast2, UsEast1, UsWest1, UsWest2>>

NoError == [kind |-> "ok", code |-> ""]
AwsErr(c) == [kind |-> "awserr", code |-> c]
OtherErr == [kind |-> "error", code |-> ""]

\* HeadBucket with cn-north-1 as the only region whose Forbidden means absent
HeadBucketOneChinaRegion(outcome, region) ==
    IF outcome.kind = "awserr"
    THEN IF outcome.code = "Forbidden" /\ region # CnNorth1
         THEN TRUE
         ELSE IF outcome.code = "NoSuchKey" THEN TRUE
         ELSE IF outcome.code = "MissingEndpoint" \/ outcome.code = "MissingRegion"
         THEN FALSE
         ELSE FALSE
    ELSE TRUE

HeadBucket(outcome, region) ==
    IF outcome.kind = "awserr"
    THEN IF outcome.code = "Forbidden" /\ region # CnNorth1 /\ region # CnNorthwest1
         THEN TRUE
         ELSE IF outcome.code = "NoSuchKey" THEN TRUE
         ELSE IF outcome.code = "MissingEndpoint" \/ outcome.code = "MissingRegion"
         THEN FALSE
         ELSE FALSE
    ELSE TRUE


\* CheckBucketExists: head[r] is the outcome of svc.HeadBucket in region r
CheckBucketExists(head, region) ==
    IF region = NoRegion \/ region = Empty
    THEN LET hits == {i \in 1..Len(GetRegions) : HeadBucket(head[GetRegions[i]], GetRegions[i])}
         IN IF hits = {} THEN [val |-> FALSE, region |-> Empty]
            ELSE [val |-> TRUE, region |-> GetRegions[SetMin(hits)]]
    ELSE [val |-> HeadBucket(head[region], region), region |-> region]

(***************************************************************************)
(* The XML document etree builds from the body: a sequence of root         *)
(* elements, each with its child elements in document order.               *)
(***************************************************************************)
NilElement == [tag |-> "", text |-> Empty, child |-> <<>>, nil |-> TRUE]
Leaf(tag, text) == [tag |-> tag, text |-> text, child |-> <<>>, nil |-> FALSE]
Node(tag, children) == [tag |-> tag, text |-> Empty, child |-> children, nil |-> FALSE]

\* the first element of seq with this tag, or nil: Document.FindElement with a
\* one-step path and Element.SelectElement
SelectElement(seq, tag) ==
    LET at == {i \in 1..Len(seq) : seq[i].tag = tag}
    IN IF at = {} THEN NilElement ELSE seq[SetMin(at)]

\* a body: whether ReadFromBytes accepts it, its root elements, and whether
\* its bytes hold the literal NoSuchBucket outside the element texts
Body(parses, literal, roots) == [parses |-> parses, literal |-> literal, roots |-> roots]

\* strings.Contains(string(bytedata), "NoSuchBucket")
BodyContainsNoSuchBucket(b) ==
    \/ b.literal
    \/ \E i \in 1..Len(b.roots) : \E j \in 1..Len(b.roots[i].child) :
           Contains(b.roots[i].child[j].text, NoSuchBucketLit)

ErrorDoc(children) == Body(TRUE, FALSE, <<Node("Error", children)>>)
ListDoc(children) == Body(TRUE, FALSE, <<Node("ListBucketResult", children)>>)

Bodies ==
    { Body(FALSE, FALSE, <<>>),
      Body(FALSE, TRUE, <<>>),
      ErrorDoc(<<Leaf("Code", NoSuchBucketLit), Leaf("BucketName", NameDeleted)>>),
      ErrorDoc(<<Leaf("Code", PermanentRedirectLit), Leaf("BucketName", NameDeleted)>>),
      ErrorDoc(<<Leaf("Code", AccessDeniedLit)>>),
      ListDoc(<<Leaf("Name", NamePublic)>>),
      ErrorDoc(<<>>),
      ErrorDoc(<<Leaf("Code", NoSuchBucketLit)>>),
      ListDoc(<<>>),
      Body(TRUE, FALSE,
           <<Node("Error", <<Leaf("Code", NoSuchBucketLit), Leaf("BucketName", NameDeleted)>>),
             Node("ListBucketResult", <<>>)>>) }

(***************************************************************************)
(* What the environment answers to one Resolve call.                       *)
(***************************************************************************)
Urls == {UrlPlain, UrlFull, UrlS3}

\* client.Get and io.ReadAll: the two errors, the three headers read, the body
Response(getErr, readErr, server, region, guploader, body) ==
    [getErr |-> getErr, readErr |-> readErr, server |-> server,
     region |-> region, guploader |-> guploader, body |-> body]

NoResponse == Response(FALSE, FALSE, Empty, Empty, Empty, Body(FALSE, FALSE, <<>>))

Responses ==
    { Response(TRUE, FALSE, Empty, Empty, Empty, Body(FALSE, FALSE, <<>>)),
      Response(FALSE, TRUE, Empty, Empty, Empty, Body(FALSE, FALSE, <<>>)),
      Response(FALSE, FALSE, AmazonS3, Empty, <<"u">>, Body(FALSE, FALSE, <<>>)) }
    \cup { Response(FALSE, FALSE, s, r, Empty, b) :
             s \in {Empty, AmazonS3}, r \in {Empty, EuWest3}, b \in Bodies }

\* net.LookupCNAME
Answer(err, cname) == [err |-> err, cname |-> cname]
Answers ==
    { Answer(TRUE, Empty), Answer(FALSE, CnameSelfDot), Answer(FALSE, CnameOther),
      Answer(FALSE, CnameVirtual), Answer(FALSE, CnamePath), Answer(FALSE, CnameLegacy) }

\* svc.HeadBucket, per region asked.  A name Resolve probes exists, if at
\* all, in one of the regions of Hosting; elsewhere HeadBucket answers
\* NoSuchBucket.
ProbedRegions == {UsEast2, UsEast1, UsWest1, UsWest2, EuWest3}
Hosting == {UsEast2, UsWest1, EuWest3}
Outcomes == {NoError, AwsErr("Forbidden"), AwsErr("NoSuchBucket")}
\* the regions CheckBucketExists(target, region) asks
Asked(region) ==
    IF region = NoRegion \/ region = Empty
    THEN {GetRegions[i] : i \in 1..Len(GetRegions)}
    ELSE {region}
Heads(region) ==
    {[r \in ProbedRegions |-> IF r \in Asked(region) \cap Hosting THEN f[r]
                              ELSE AwsErr("NoSuchBucket")] :
        f \in [Asked(region) \cap Hosting -> Outcomes]}

(***************************************************************************)
(* The values Resolve returns.                                             *)
(***************************************************************************)
Nil == "nil"
ErrAlreadyS3 == "Already a S3 URL, no need to resolve further."
ErrGCS == "Cannot deal with Google Cloud Storage yet."
ErrGet == "client.Get: err"
ErrReadAll == "io.ReadAll: err"

(***************************************************************************)
(* State: the Resolver's fields, the position and the local variables of   *)
(* the Resolve call in progress, and what the caller's loop has seen       *)
(* returned.  entry holds the Resolver's fields as they were when the      *)
(* call in progress (or the last call) was entered.                        *)
(***************************************************************************)
VARIABLES Buckets, UrlsProcessed, UrlsFailed, Endpoints, TakeoverPossible,
          pc, url, status, resp, bytedata, returns, entry

\* The audit command's state: its inputs names, actions (--perm) and write
\* (--write), the Auditor's
\* fields Playbook and Results, the position apc of the command, the index
\* idx of its loop over names, the locals bucket, region and audit of the
\* Run call in progress with the playbook entries its range has yet to
\* visit, what the command returned and what it printed (Output, or the
\* resolve command's signal handler); and, on the
\* service's side, the buckets it stores, the verbs it grants the principal,
\* and the buckets as they were when the Run call in progress was entered.
VARIABLES names, actions, write, Playbook, Results, apc, idx, bucket, region,
          audit, pending, exit, output, store, grants, before

rvars == <<Buckets, UrlsProcessed, UrlsFailed, Endpoints, TakeoverPossible,
           pc, url, status, resp, bytedata, returns, entry>>

avars == <<names, actions, write, Playbook, Results, apc, idx, bucket, region,
           audit, pending, exit, output, store, grants, before>>

\* One application of a function of the program on its own: the function
\* applied with the arguments it is given, and what it returned once it has.
VARIABLES input, result

fvars == <<input, result>>

vars == <<rvars, avars, fvars>>

fields == <<Buckets, UrlsProcessed, UrlsFailed, Endpoints, TakeoverPossible>>

ResolverStatus(u, b, r, t) == [Url |-> u, Bucket |-> b, Region |-> r, Takeover |-> t]

NoStatus == ResolverStatus(Empty, Empty, Empty, FALSE)
NoBody == Body(FALSE, FALSE, <<>>)

Snapshot ==
    [Buckets |-> Buckets, UrlsProcessed |-> UrlsProcessed, UrlsFailed |-> UrlsFailed,
     Endpoints |-> Endpoints, TakeoverPossible |-> TakeoverPossible]

EmptyMap == [x \in {} |-> TRUE]

\* NewResolver
NewResolver ==
    /\ Buckets = <<>>
    /\ UrlsProcessed = 0
    /\ UrlsFailed = 0
    /\ Endpoints = 0
    /\ TakeoverPossible = 0
    /\ pc = "idle"
    /\ url = Empty
    /\ status = NoStatus
    /\ resp = NoResponse
    /\ bytedata = NoBody
    /\ returns = <<>>
    /\ entry = [Buckets |-> <<>>, UrlsProcessed |-> 0, UrlsFailed |-> 0,
                Endpoints |-> 0, TakeoverPossible |-> 0]

\* the resolve command builds no Auditor
NoAuditor ==
    /\ names = <<>>
    /\ actions = <<>>
    /\ write = FALSE
    /\ Playbook = EmptyMap
    /\ Results = EmptyMap
    /\ apc = "none"
    /\ idx = 0
    /\ bucket = ""
    /\ region = Empty
    /\ audit = EmptyMap
    /\ pending = {}
    /\ exit = ""
    /\ output = EmptyMap
    /\ store = EmptyMap
    /\ grants = {}
    /\ before = EmptyMap

\* no function is applied on its own
NoApplication ==
    /\ input = [fn |-> ""]
    /\ result = <<>>

\* the resolve command: NewResolver, then the loop over the URLs
Init == NewResolver /\ NoAuditor /\ NoApplication

\* Resolve returns err to the loop of the resolve command; its locals end
Return(err) ==
    /\ pc' = "idle"
    /\ returns' = Append(returns, err)
    /\ url' = Empty
    /\ status' = NoStatus
    /\ resp' = NoResponse
    /\ bytedata' = NoBody

\* the resolve command's loop calls resolver.Resolve(u)
Call(u) ==
    /\ pc = "idle"
    /\ UNCHANGED avars
    /\ UNCHANGED fvars
    /\ Len(returns) < MaxCalls
    /\ pc' = "sanity"
    /\ url' = u
    /\ entry' = Snapshot
    /\ UNCHANGED <<fields, status, resp, bytedata, returns>>

\* the sanity check, and the default status; url is not read after it
SanityCheck ==
    /\ pc = "sanity"
    /\ UNCHANGED avars
    /\ UNCHANGED fvars
    /\ IF Contains(url, AmazonawsCom)
       THEN /\ UrlsFailed' = UrlsFailed + 1
            /\ Return(ErrAlreadyS3)
            /\ UNCHANGED <<Buckets, UrlsProcessed, Endpoints, TakeoverPossible, entry>>
       ELSE /\ status' = ResolverStatus(GenerateUrlPair(url).relativeUrl, NoBucket, NoRegion, FALSE)
            /\ url' = Empty
            /\ pc' = "get"
            /\ UNCHANGED <<fields, resp, bytedata, returns, entry>>

\* client.Get(fullUrl) and io.ReadAll(resp.Body) answer r
Get(r) ==
    /\ pc = "get"
    /\ UNCHANGED avars
    /\ UNCHANGED fvars
    /\ resp' = r
    /\ pc' = "got"
    /\ UNCHANGED <<fields, url, status, bytedata, returns, entry>>

\* CheckGet with the processed counter moved above the error checks
CheckGetCountsFirst ==
    /\ pc = "got"
    /\ UNCHANGED avars
    /\ UNCHANGED fvars
    /\ UrlsProcessed' = UrlsProcessed + 1
    /\ IF resp.getErr \/ resp.readErr
       THEN /\ UrlsFailed' = UrlsFailed + 1
            /\ Return(IF resp.getErr THEN ErrGet ELSE ErrReadAll)
            /\ UNCHANGED <<Buckets, Endpoints, TakeoverPossible, entry>>
       ELSE /\ bytedata' = resp.body
            /\ pc' = "headers"
            /\ UNCHANGED <<Buckets, UrlsFailed, Endpoints, TakeoverPossible,
                           url, status, resp, returns, entry>>

\* the two error checks after the GET; the endpoint could be pinged
CheckGet ==
    /\ pc = "got"
    /\ UNCHANGED avars
    /\ UNCHANGED fvars
    /\ IF resp.getErr \/ resp.readErr
       THEN /\ UrlsFailed' = UrlsFailed + 1
            /\ Return(IF resp.getErr THEN ErrGet ELSE ErrReadAll)
            /\ UNCHANGED <<Buckets, UrlsProcessed, Endpoints, TakeoverPossible, entry>>
       ELSE /\ UrlsProcessed' = UrlsProcessed + 1
            /\ bytedata' = resp.body
            /\ pc' = "headers"
            /\ UNCHANGED <<Buckets, UrlsFailed, Endpoints, TakeoverPossible,
                           url, status, resp, returns, entry>>

\* FirstCheck with the GCS rejection left out of UrlsFailed
FirstCheckGcsUncounted ==
    /\ pc = "headers"
    /\ UNCHANGED avars
    /\ UNCHANGED fvars
    /\ IF resp.guploader # Empty
       THEN /\ Return(ErrGCS)
            /\ UNCHANGED <<fields, entry>>
       ELSE /\ status' = [status EXCEPT
                            !.Bucket = IF resp.server = AmazonS3 THEN SomeBucket ELSE @,
                            !.Region = IF resp.region # Empty THEN resp.region ELSE @]
            /\ resp' = NoResponse
            /\ pc' = "cname"
            /\ UNCHANGED <<fields, url, bytedata, returns, entry>>

\* FirstCheck without the X-GUploader-UploadID test
FirstCheckNoGcs ==
    /\ pc = "headers"
    /\ UNCHANGED avars
    /\ UNCHANGED fvars
    /\ status' = [status EXCEPT
                    !.Bucket = IF resp.server = AmazonS3 THEN SomeBucket ELSE @,
                    !.Region = IF resp.region # Empty THEN resp.region ELSE @]
    /\ resp' = NoResponse
    /\ pc' = "cname"
    /\ UNCHANGED <<fields, url, bytedata, returns, entry>>

\* FIRST CHECK: the response headers; resp is not read after it
FirstCheck ==
    /\ pc = "headers"
    /\ UNCHANGED avars
    /\ UNCHANGED fvars
    /\ IF resp.guploader # Empty
       THEN /\ UrlsFailed' = UrlsFailed + 1
            /\ Return(ErrGCS)
            /\ UNCHANGED <<Buckets, UrlsProcessed, Endpoints, TakeoverPossible, entry>>
       ELSE /\ status' = [status EXCEPT
                            !.Bucket = IF resp.server = AmazonS3 THEN SomeBucket ELSE @,
                            !.Region = IF resp.region # Empty THEN resp.region ELSE @]
            /\ resp' = NoResponse
            /\ pc' = "cname"
            /\ UNCHANGED <<fields, url, bytedata, returns, entry>>

\* element i of a FindStringSubmatch result, counted from 0 as the source does
Sub(m, i) == m[i + 1]

\* SecondCheck without the default region of a bucket found
SecondCheckNoDefaultRegion(answer) ==
    /\ pc = "cname"
    /\ UNCHANGED avars
    /\ UNCHANGED fvars
    /\ LET potentialCname == GetCNAME(status.Url, answer)
           expr1Matches == Expr1Matches(potentialCname)
           expr2Matches == Expr2Matches(potentialCname)
           s1 == IF Len(expr1Matches) # 0
                 THEN [status EXCEPT !.Region = Sub(expr1Matches, 1),
                                     !.Bucket = Sub(expr1Matches, 2)]
                 ELSE status
           s2 == IF Len(expr2Matches) # 0
                 THEN [s1 EXCEPT !.Region = Sub(expr2Matches, 2),
                                 !.Bucket = Sub(expr2Matches, 1)]
                 ELSE s1
       IN IF Contains(potentialCname, DotAmazonawsCom)
          THEN /\ status' = s2
               /\ pc' = IF s2.Bucket = NoBucket THEN "third" ELSE "takeover"
          ELSE /\ status' = status
               /\ pc' = "third"
    /\ UNCHANGED <<fields, url, resp, bytedata, returns, entry>>

\* SecondCheck going on to the third check whatever the CNAME holds
SecondCheckNeverReturns(answer) ==
    /\ pc = "cname"
    /\ UNCHANGED avars
    /\ UNCHANGED fvars
    /\ LET potentialCname == GetCNAME(status.Url, answer)
           expr1Matches == Expr1Matches(potentialCname)
           expr2Matches == Expr2Matches(potentialCname)
           s1 == IF Len(expr1Matches) # 0
                 THEN [status EXCEPT !.Region = Sub(expr1Matches, 1),
                                     !.Bucket = Sub(expr1Matches, 2)]
                 ELSE status
           s2 == IF Len(expr2Matches) # 0
                 THEN [s1 EXCEPT !.Region = Sub(expr2Matches, 2),
                                 !.Bucket = Sub(expr2Matches, 1)]
                 ELSE s1
       IN /\ status' = IF Contains(potentialCname, DotAmazonawsCom) THEN s2 ELSE status
          /\ pc' = "third"
    /\ UNCHANGED <<fields, url, resp, bytedata, returns, entry>>

\* SECOND CHECK: the CNAME record, up to the default region
SecondCheck(answer) ==
    /\ pc = "cname"
    /\ UNCHANGED avars
    /\ UNCHANGED fvars
    /\ LET potentialCname == GetCNAME(status.Url, answer)
           expr1Matches == Expr1Matches(potentialCname)
           expr2Matches == Expr2Matches(potentialCname)
           s1 == IF Len(expr1Matches) # 0
                 THEN [status EXCEPT !.Region = Sub(expr1Matches, 1),
                                     !.Bucket = Sub(expr1Matches, 2)]
                 ELSE status
           s2 == IF Len(expr2Matches) # 0
                 THEN [s1 EXCEPT !.Region = Sub(expr2Matches, 2),
                                 !.Bucket = Sub(expr2Matches, 1)]
                 ELSE s1
       IN IF Contains(potentialCname, DotAmazonawsCom)
          THEN IF s2.Bucket = NoBucket
               THEN /\ status' = s2
                    /\ pc' = "third"
               ELSE /\ status' = IF s2.Region = NoRegion
                                 THEN [s2 EXCEPT !.Region = UsEast1]
                                 ELSE s2
                    /\ pc' = "takeover"
          ELSE /\ status' = status
               /\ pc' = "third"
    /\ UNCHANGED <<fields, url, resp, bytedata, returns, entry>>

\* CnameTakeover without the counter
CnameTakeoverUncounted ==
    /\ pc = "takeover"
    /\ UNCHANGED avars
    /\ UNCHANGED fvars
    /\ status' = [status EXCEPT !.Takeover = BodyContainsNoSuchBucket(bytedata)]
    /\ pc' = "cnameEndpoint"
    /\ UNCHANGED <<fields, url, resp, bytedata, returns, entry>>

\* CnameTakeover declaring the takeover possible whatever the body holds
CnameTakeoverAlways ==
    /\ pc = "takeover"
    /\ UNCHANGED avars
    /\ UNCHANGED fvars
    /\ TakeoverPossible' = TakeoverPossible + 1
    /\ status' = [status EXCEPT !.Takeover = TRUE]
    /\ pc' = "cnameEndpoint"
    /\ UNCHANGED <<Buckets, UrlsProcessed, UrlsFailed, Endpoints,
                   url, resp, bytedata, returns, entry>>

\* the takeover check of the CNAME branch
CnameTakeover ==
    /\ pc = "takeover"
    /\ UNCHANGED avars
    /\ UNCHANGED fvars
    /\ IF BodyContainsNoSuchBucket(bytedata)
       THEN /\ TakeoverPossible' = TakeoverPossible + 1
            /\ status' = [status EXCEPT !.Takeover = TRUE]
       ELSE UNCHANGED <<TakeoverPossible, status>>
    /\ pc' = "cnameEndpoint"
    /\ UNCHANGED <<Buckets, UrlsProcessed, UrlsFailed, Endpoints,
                   url, resp, bytedata, returns, entry>>

\* the CNAME branch without its r.Endpoints += 1
CnameEndpointSkipped ==
    /\ pc = "cnameEndpoint"
    /\ UNCHANGED avars
    /\ UNCHANGED fvars
    /\ pc' = "cnameAppend"
    /\ UNCHANGED <<fields, url, status, resp, bytedata, returns, entry>>

\* r.Endpoints += 1 of the CNAME branch
CnameEndpoint ==
    /\ pc = "cnameEndpoint"
    /\ UNCHANGED avars
    /\ UNCHANGED fvars
    /\ Endpoints' = Endpoints + 1
    /\ pc' = "cnameAppend"
    /\ UNCHANGED <<Buckets, UrlsProcessed, UrlsFailed, TakeoverPossible,
                   url, status, resp, bytedata, returns, entry>>

\* the append and the return of the CNAME branch
CnameAppend ==
    /\ pc = "cnameAppend"
    /\ UNCHANGED avars
    /\ UNCHANGED fvars
    /\ Buckets' = Append(Buckets, status)
    /\ Return(Nil)
    /\ UNCHANGED <<UrlsProcessed, UrlsFailed, Endpoints, TakeoverPossible, entry>>

\* THIRD CHECK: the URL as a bucket name; head is what HeadBucket meets
ThirdCheck ==
    /\ pc = "third"
    /\ UNCHANGED avars
    /\ UNCHANGED fvars
    /\ \E head \in Heads(status.Region) :
          LET found == CheckBucketExists(head, status.Region)
          IN status' = IF found.val
                       THEN [status EXCEPT !.Bucket = status.Url, !.Region = found.region]
                       ELSE status
    /\ pc' = "xml"
    /\ UNCHANGED <<fields, url, resp, bytedata, returns, entry>>

\* FinalCheckError taking PermanentRedirect for a deleted bucket as well
FinalCheckErrorRedirectTakeover ==
    /\ pc = "xml"
    /\ UNCHANGED avars
    /\ UNCHANGED fvars
    /\ IF ~bytedata.parses
       THEN /\ pc' = "end"
            /\ UNCHANGED <<status, TakeoverPossible>>
       ELSE LET errTag == SelectElement(bytedata.roots, "Error")
                codeTag == SelectElement(errTag.child, "Code")
                nameTag == SelectElement(errTag.child, "BucketName")
                code == codeTag.text
            IN IF errTag.nil
               THEN /\ pc' = "list"
                    /\ UNCHANGED <<status, TakeoverPossible>>
               ELSE IF codeTag.nil
               THEN /\ pc' = "panic"
                    /\ UNCHANGED <<status, TakeoverPossible>>
               ELSE IF code = NoSuchBucketLit
               THEN IF nameTag.nil
                    THEN /\ pc' = "panic"
                         /\ UNCHANGED <<status, TakeoverPossible>>
                    ELSE /\ status' = [status EXCEPT !.Bucket = nameTag.text,
                                                     !.Takeover = TRUE]
                         /\ TakeoverPossible' = TakeoverPossible + 1
                         /\ pc' = "list"
               ELSE IF code = PermanentRedirectLit
               THEN IF nameTag.nil
                    THEN /\ pc' = "panic"
                         /\ UNCHANGED <<status, TakeoverPossible>>
                    ELSE /\ status' = [status EXCEPT !.Bucket = nameTag.text,
                                                     !.Takeover = TRUE]
                         /\ TakeoverPossible' = TakeoverPossible + 1
                         /\ pc' = "list"
               ELSE /\ status' = [status EXCEPT !.Bucket = SomeBucket]
                    /\ pc' = "list"
                    /\ UNCHANGED TakeoverPossible
    /\ UNCHANGED <<Buckets, UrlsProcessed, UrlsFailed, Endpoints,
                   url, resp, bytedata, returns, entry>>

\* FINAL CHECK, the Error root.  Text() of a missing element dereferences
\* nil: the goroutine panics and the process ends.
FinalCheckError ==
    /\ pc = "xml"
    /\ UNCHANGED avars
    /\ UNCHANGED fvars
    /\ IF ~bytedata.parses
       THEN /\ pc' = "end"
            /\ UNCHANGED <<status, TakeoverPossible>>
       ELSE LET errTag == SelectElement(bytedata.roots, "Error")
                codeTag == SelectElement(errTag.child, "Code")
                nameTag == SelectElement(errTag.child, "BucketName")
                code == codeTag.text
            IN IF errTag.nil
               THEN /\ pc' = "list"
                    /\ UNCHANGED <<status, TakeoverPossible>>
               ELSE IF codeTag.nil
               THEN /\ pc' = "panic"
                    /\ UNCHANGED <<status, TakeoverPossible>>
               ELSE IF code = NoSuchBucketLit
               THEN IF nameTag.nil
                    THEN /\ pc' = "panic"
                         /\ UNCHANGED <<status, TakeoverPossible>>
                    ELSE /\ status' = [status EXCEPT !.Bucket = nameTag.text,
                                                     !.Takeover = TRUE]
                         /\ TakeoverPossible' = TakeoverPossible + 1
                         /\ pc' = "list"
               ELSE IF code = PermanentRedirectLit
               THEN IF nameTag.nil
                    THEN /\ pc' = "panic"
                         /\ UNCHANGED <<status, TakeoverPossible>>
                    ELSE /\ status' = [status EXCEPT !.Bucket = nameTag.text]
                         /\ pc' = "list"
                         /\ UNCHANGED TakeoverPossible
               ELSE /\ status' = [status EXCEPT !.Bucket = SomeBucket]
                    /\ pc' = "list"
                    /\ UNCHANGED TakeoverPossible
    /\ UNCHANGED <<Buckets, UrlsProcessed, UrlsFailed, Endpoints,
                   url, resp, bytedata, returns, entry>>

\* FINAL CHECK, the ListBucketResult root
FinalCheckList ==
    /\ pc = "list"
    /\ UNCHANGED avars
    /\ UNCHANGED fvars
    /\ LET resTag == SelectElement(bytedata.roots, "ListBucketResult")
           nameTag == SelectElement(resTag.child, "Name")
       IN IF resTag.nil
          THEN /\ pc' = "end"
               /\ UNCHANGED status
          ELSE IF nameTag.nil
          THEN /\ pc' = "panic"
               /\ UNCHANGED status
          ELSE /\ status' = [status EXCEPT !.Bucket = nameTag.text]
               /\ pc' = "end"
    /\ UNCHANGED <<fields, url, resp, bytedata, returns, entry>>

\* the endpoint counter without its test of NoBucket
EndEndpointAlways ==
    /\ pc = "end"
    /\ UNCHANGED avars
    /\ UNCHANGED fvars
    /\ Endpoints' = Endpoints + 1
    /\ pc' = "append"
    /\ UNCHANGED <<Buckets, UrlsProcessed, UrlsFailed, TakeoverPossible,
                   url, status, resp, bytedata, returns, entry>>

\* end: the endpoint counter
EndEndpoint ==
    /\ pc = "end"
    /\ UNCHANGED avars
    /\ UNCHANGED fvars
    /\ Endpoints' = IF status.Bucket # NoBucket THEN Endpoints + 1 ELSE Endpoints
    /\ pc' = "append"
    /\ UNCHANGED <<Buckets, UrlsProcessed, UrlsFailed, TakeoverPossible,
                   url, status, resp, bytedata, returns, entry>>

\* the end of Resolve treating "no bucket found" as an error
EndAppendFailsOnNoBucket ==
    /\ pc = "append"
    /\ UNCHANGED avars
    /\ UNCHANGED fvars
    /\ IF status.Bucket = NoBucket
       THEN /\ Return("No bucket found")
            /\ UNCHANGED <<fields, entry>>
       ELSE /\ Buckets' = Append(Buckets, status)
            /\ Return(Nil)
            /\ UNCHANGED <<UrlsProcessed, UrlsFailed, Endpoints, TakeoverPossible, entry>>

\* end: the append and the return
EndAppend ==
    /\ pc = "append"
    /\ UNCHANGED avars
    /\ UNCHANGED fvars
    /\ Buckets' = Append(Buckets, status)
    /\ Return(Nil)
    /\ UNCHANGED <<UrlsProcessed, UrlsFailed, Endpoints, TakeoverPossible, entry>>

\* Resolver.Table: the rows of the statuses that have a bucket
HasBucket(data) == data.Bucket # NoBucket
Table(buckets) == SelectSeq(buckets, HasBucket)

\* Resolver.OutputStats with a path given: the lines appended to the file,
\* and the count of names printed with the counters
Written(data) == ~data.Takeover /\ data.Bucket # SomeBucket
Lines(buckets) ==
    LET kept == SelectSeq(buckets, Written)
    IN [k \in 1..Len(kept) |-> kept[k].Bucket]
NameCount(buckets) == Cardinality({i \in 1..Len(buckets) : buckets[i].Bucket # SomeBucket})

\* PrintTable(header, resolver.Table()) and resolver.OutputStats(outputPath):
\* the Resolver's fields as read, the rows printed, the lines appended to
\* the file and the count of names
ResolverOutput ==
    [Buckets |-> Buckets, UrlsProcessed |-> UrlsProcessed, UrlsFailed |-> UrlsFailed,
     Endpoints |-> Endpoints, TakeoverPossible |-> TakeoverPossible,
     Table |-> Table(Buckets), File |-> Lines(Buckets), NameCount |-> NameCount(Buckets)]

\* the loop of the resolve command is over: the table and the stats are
\* output and the command returns nil
ResolveOutput ==
    /\ pc = "idle"
    /\ UNCHANGED fvars
    /\ output' = ResolverOutput
    /\ pc' = "returned"
    /\ UNCHANGED <<fields, url, status, resp, bytedata, returns, entry>>
    /\ UNCHANGED <<names, actions, write, Playbook, Results, apc, idx, bucket, region,
                   audit, pending, exit, store, grants, before>>

\* The signal handler of the resolve command: it reads the Resolver's
\* fields for PrintTable and OutputStats, here in one step between two
\* steps of the loop, and calls os.Exit(0); output holds the fields as read
\* and what was output from them.
ResolveInterrupt ==
    /\ pc \notin {"exited", "panic", "returned"}
    /\ UNCHANGED fvars
    /\ output' = ResolverOutput
    /\ pc' = "exited"
    /\ url' = Empty
    /\ status' = NoStatus
    /\ resp' = NoResponse
    /\ bytedata' = NoBody
    /\ UNCHANGED <<fields, returns, entry>>
    /\ UNCHANGED <<names, actions, write, Playbook, Results, apc, idx, bucket, region,
                   audit, pending, exit, store, grants, before>>

Next ==
    \/ \E u \in Urls : Call(u)
    \/ SanityCheck
    \/ \E r \in Responses : Get(r)
    \/ CheckGet
    \/ FirstCheck
    \/ \E a \in Answers : SecondCheck(a)
    \/ CnameTakeover
    \/ CnameEndpoint
    \/ CnameAppend
    \/ ThirdCheck
    \/ FinalCheckError
    \/ FinalCheckList
    \/ EndEndpoint
    \/ EndAppend
    \/ ResolveOutput
    \/ ResolveInterrupt

Spec == Init /\ [][Next]_vars

(***************************************************************************)
(* The audit command.  The S3 service it talks to is given by what it      *)
(* stores for each bucket and what it answers to one request; the          *)
(* playbook's callbacks are the requests they send and what they make of   *)
(* the answers.                                                            *)
(***************************************************************************)
TempObject == "temp"

\* the action names NewPlayBook registers
Registered ==
    {"ListObjects", "PutObject", "GetBucketAcl", "PutBucketAcl",
     "GetBucketPolicy", "PutBucketPolicy", "GetBucketCors", "PutBucketCors",
     "GetBucketLogging", "GetBucketWebsite", "GetBucketVersioning",
     "GetBucketEncryption"}

\* the registered actions whose callback is one SDK read call
ReadCalls ==
    {"ListObjects", "GetBucketAcl", "GetBucketPolicy", "GetBucketCors",
     "GetBucketLogging", "GetBucketWebsite", "GetBucketVersioning",
     "GetBucketEncryption"}

NewPlayBook == [n \in Registered |-> [Callback |-> n]]

\* md5 then base64: distinct contents have distinct checksums
Md5(content) == <<"md5", content>>

\* the policy document PutBucketPolicy marshals for the bucket b
TestPolicy(b) ==
    [Version |-> "2021-01-01", Sid |-> "AddPerm", Effect |-> "Allow",
     Principal |-> "*", Action |-> <<"s3:GetObject">>,
     Resource |-> <<"arn:aws:s3:::", b, "/*">>]

AllUsers == "uri=http://acs.amazonaws.com/groups/global/AllUsers"

\* a request: the verb, the bucket it names (none: ""), the Content-MD5
\* header when the callback sets one, the body sent, the key, grant or
\* document carried
Request(verb, b, md5, body, arg) ==
    [verb |-> verb, bucket |-> b, md5 |-> md5, body |-> body, arg |-> arg]

\* a bucket as the service stores it
EmptyBucket == [objects |-> {}, acl |-> {}, policy |-> <<>>, cors |-> <<>>]

Answered(code, st) == [code |-> code, st |-> st]

\* The service's answer to request req of a principal granted the verbs g,
\* st being the buckets stored: 404 for a bucket it does not store, 403 for
\* a verb not granted, 400 for a Content-MD5 that is not the body's
\* checksum, 400 for a policy document it does not accept (accepts is its
\* verdict on the document), and otherwise 200, a write being applied.
S3(st, g, req, accepts) ==
    IF req.bucket \notin DOMAIN st THEN Answered(404, st)
    ELSE IF req.verb \notin g THEN Answered(403, st)
    ELSE IF req.md5 # <<>> /\ req.md5 # <<Md5(req.body)>> THEN Answered(400, st)
    ELSE IF req.verb = "PutObject"
    THEN Answered(200, [st EXCEPT ![req.bucket].objects =
                                      {o \in @ : o[1] # req.arg} \cup {<<req.arg, req.body>>}])
    ELSE IF req.verb = "PutBucketAcl"
    THEN Answered(200, [st EXCEPT ![req.bucket].acl = {req.arg}])
    ELSE IF req.verb = "PutBucketPolicy"
    THEN IF accepts
         THEN Answered(200, [st EXCEPT ![req.bucket].policy = <<req.arg>>])
         ELSE Answered(400, st)
    ELSE IF req.verb = "PutBucketCors"
    THEN Answered(200, [st EXCEPT ![req.bucket].cors = <<req.arg>>])
    ELSE Answered(200, st)

\* what a callback hands back: the boolean it returns, or a panic, and the
\* buckets as the service stores them afterwards
Returned(val, st) == [val |-> val, panics |-> FALSE, st |-> st]
Panicked(st) == [val |-> FALSE, panics |-> TRUE, st |-> st]

\* the eight read callbacks: one SDK call, true unless it returns an error
ReadCallback(verb, st, g, b) ==
    LET ans == S3(st, g, Request(verb, b, <<>>, "", ""), TRUE)
    IN Returned(ans.code = 200, ans.st)

\* PutObject: the checksum of the empty content in the header, a presigned
\* URL, a PUT of "CONTENT" through http.DefaultClient; presignErr and doErr
\* tell whether Presign and Do return an error
PutObjectRequest(b) == Request("PutObject", b, <<Md5("")>>, "CONTENT", TempObject)

PutObject(st, g, b, presignErr, doErr) ==
    LET ans == S3(st, g, PutObjectRequest(b), TRUE)
    IN IF presignErr THEN Returned(FALSE, st)
       ELSE IF doErr THEN Panicked(st)
       ELSE Returned(ans.code = 200 \/ ans.code = 400, ans.st)

\* PutBucketAcl: the checksum of "CONTENT" in the header of a request whose
\* grant travels in a header, sent by the SDK; sendErr tells whether Send
\* fails before any response is received
PutBucketAclRequest(b) == Request("PutBucketAcl", b, <<Md5("CONTENT")>>, "", AllUsers)

PutBucketAcl(st, g, b, sendErr) ==
    LET ans == S3(st, g, PutBucketAclRequest(b), TRUE)
    IN IF sendErr THEN Returned(FALSE, st)
       ELSE Returned(ans.code = 200, ans.st)

\* PutBucketPolicy: the SDK call with the marshalled policy
PutBucketPolicy(st, g, b, accepts) ==
    LET policy == TestPolicy(b)
        ans == S3(st, g, Request("PutBucketPolicy", b, <<>>, policy, policy), accepts)
    IN Returned(ans.code = 200, ans.st)

\* PutBucketCors: the SDK call with an input that names no bucket
PutBucketCors(st, g) ==
    LET ans == S3(st, g, Request("PutBucketCors", "", <<>>, "", ""), TRUE)
    IN Returned(ans.code = 200, ans.st)

\* action.Callback(*svc, bucket) for the playbook entry act
Callback(act, st, g, b, presignErr, doErr, accepts) ==
    IF act.Callback = "PutObject" THEN PutObject(st, g, b, presignErr, doErr)
    ELSE IF act.Callback = "PutBucketAcl" THEN PutBucketAcl(st, g, b, doErr)
    ELSE IF act.Callback = "PutBucketPolicy" THEN PutBucketPolicy(st, g, b, accepts)
    ELSE IF act.Callback = "PutBucketCors" THEN PutBucketCors(st, g)
    ELSE ReadCallback(act.Callback, st, g, b)

\* what a callback may meet: Presign failing, the transport
\* (http.DefaultClient.Do, Send) failing, the service's verdict on the
\* policy document
Environment(name) ==
    IF name = "PutObject"
    THEN {[presignErr |-> p, doErr |-> d, accepts |-> TRUE] :
             p \in BOOLEAN, d \in BOOLEAN}
    ELSE IF name = "PutBucketAcl"
    THEN {[presignErr |-> FALSE, doErr |-> d, accepts |-> TRUE] : d \in BOOLEAN}
    ELSE IF name = "PutBucketPolicy"
    THEN {[presignErr |-> FALSE, doErr |-> FALSE, accepts |-> a] : a \in BOOLEAN}
    ELSE {[presignErr |-> FALSE, doErr |-> FALSE, accepts |-> TRUE]}

\* m with key k set to v
MapPut(m, k, v) == [x \in DOMAIN m \cup {k} |-> IF x = k THEN v ELSE m[x]]

\* The buckets a run may name: two the service stores in regions that
\* GetRegions lists, one it stores in a region GetRegions does not list,
\* and one it does not store.
Hosted == [b \in {"first", "second", "abroad"} |->
              IF b = "first" THEN UsEast1
              ELSE IF b = "second" THEN UsWest2
              ELSE EuWest3]
Targets == DOMAIN Hosted \cup {"missing"}

\* svc.HeadBucket for the bucket b, per region: the bucket's own region
\* answers, every other region refuses
HeadOf(b, g) ==
    [r \in ProbedRegions |->
        IF b \notin DOMAIN Hosted THEN AwsErr("NotFound")
        ELSE IF Hosted[b] # r THEN AwsErr("BucketRegionError")
        ELSE IF "HeadBucket" \in g THEN NoError
        ELSE AwsErr("Forbidden")]

\* --name, --file and --list together: at least one name
NameLists ==
    { <<"first">>, <<"missing">>, <<"abroad">>, <<"first", "second">>,
      <<"missing", "first">>, <<"first", "missing", "second">> }

\* --perm
PermLists ==
    { <<>>, <<"ListObjects", "PutObject">>, <<"PutBucketPolicy", "GetBucketPolicy">>,
      <<"NoSuchAction">>, <<"PutBucketAcl", "NoSuchAction", "PutBucketCors">> }

\* the verbs the service grants the principal of the profile
Principals ==
    { {}, ReadCalls \cup {"HeadBucket"}, Registered \cup {"HeadBucket"},
      {"ListObjects"}, {"PutBucketPolicy", "PutObject", "PutBucketAcl", "PutBucketCors"} }

ErrNoBucket == "Specified bucket does not exist in any region."
ErrARN == "GetIAMUserARN: err"

\* the audit command after its argument parsing
AuditInit ==
    /\ NewResolver
    /\ NoApplication
    /\ names \in NameLists
    /\ actions \in PermLists
    /\ write \in BOOLEAN
    /\ grants \in Principals
    /\ store = [b \in DOMAIN Hosted |-> EmptyBucket]
    /\ before = [b \in DOMAIN Hosted |-> EmptyBucket]
    /\ Playbook = EmptyMap
    /\ Results = EmptyMap
    /\ apc = "start"
    /\ idx = 1
    /\ bucket = ""
    /\ region = Empty
    /\ audit = EmptyMap
    /\ pending = {}
    /\ exit = ""
    /\ output = EmptyMap

\* NewAuditor falling back to the whole registry when no name of actions
\* is registered
NewAuditorFallsBack(arnErr) ==
    /\ apc = "start"
    /\ UNCHANGED rvars
    /\ UNCHANGED fvars
    /\ IF arnErr
       THEN /\ apc' = "returned"
            /\ exit' = ErrARN
            /\ UNCHANGED Playbook
       ELSE /\ Playbook' =
                  IF {actions[i] : i \in 1..Len(actions)} \cap DOMAIN NewPlayBook # {}
                  THEN [n \in {actions[i] : i \in 1..Len(actions)} \cap DOMAIN NewPlayBook
                           |-> NewPlayBook[n]]
                  ELSE NewPlayBook
            /\ apc' = "loop"
            /\ UNCHANGED exit
    /\ UNCHANGED <<names, actions, write, Results, idx, bucket, region, audit, pending,
                   output, store, grants, before>>

\* NewAuditor keeping the whole registry whatever actions holds
NewAuditorKeepsAll(arnErr) ==
    /\ apc = "start"
    /\ UNCHANGED rvars
    /\ UNCHANGED fvars
    /\ IF arnErr
       THEN /\ apc' = "returned"
            /\ exit' = ErrARN
            /\ UNCHANGED Playbook
       ELSE /\ Playbook' = NewPlayBook
            /\ apc' = "loop"
            /\ UNCHANGED exit
    /\ UNCHANGED <<names, actions, write, Results, idx, bucket, region, audit, pending,
                   output, store, grants, before>>

\* NewAuditor(actions, profile); arnErr tells whether the credentials file
\* exists and GetIAMUserARN fails
NewAuditor(arnErr) ==
    /\ apc = "start"
    /\ UNCHANGED rvars
    /\ UNCHANGED fvars
    /\ IF arnErr
       THEN /\ apc' = "returned"
            /\ exit' = ErrARN
            /\ UNCHANGED Playbook
       ELSE /\ Playbook' =
                  IF Len(actions) # 0
                  THEN [n \in {actions[i] : i \in 1..Len(actions)} \cap DOMAIN NewPlayBook
                           |-> NewPlayBook[n]]
                  ELSE NewPlayBook
            /\ apc' = "loop"
            /\ UNCHANGED exit
    /\ UNCHANGED <<names, actions, write, Results, idx, bucket, region, audit, pending,
                   output, store, grants, before>>

\* the command's loop calls auditor.Run(names[idx])
RunCall ==
    /\ apc = "loop"
    /\ UNCHANGED rvars
    /\ UNCHANGED fvars
    /\ idx =< Len(names)
    /\ bucket' = names[idx]
    /\ before' = store
    /\ apc' = "exists"
    /\ UNCHANGED <<names, actions, write, Playbook, Results, idx, region, audit, pending,
                   exit, output, store, grants>>

\* RunCheckBucketExists storing an empty audit for the bucket it rejects
RunCheckBucketExistsRecordsFailure ==
    /\ apc = "exists"
    /\ UNCHANGED rvars
    /\ UNCHANGED fvars
    /\ LET found == CheckBucketExists(HeadOf(bucket, grants), NoRegion)
       IN IF ~found.val
          THEN /\ apc' = "returned"
               /\ exit' = ErrNoBucket
               /\ bucket' = ""
               /\ Results' = MapPut(Results, bucket, EmptyMap)
               /\ UNCHANGED <<region, audit, pending>>
          ELSE /\ region' = found.region
               /\ audit' = EmptyMap
               /\ pending' = DOMAIN Playbook
               /\ apc' = "range"
               /\ UNCHANGED <<bucket, exit, Results>>
    /\ UNCHANGED <<names, actions, write, Playbook, idx, output, store, grants, before>>

\* Run: CheckBucketExists(bucket, NoRegion); when it fails Run returns the
\* error and the command returns it
RunCheckBucketExists ==
    /\ apc = "exists"
    /\ UNCHANGED rvars
    /\ UNCHANGED fvars
    /\ LET found == CheckBucketExists(HeadOf(bucket, grants), NoRegion)
       IN IF ~found.val
          THEN /\ apc' = "returned"
               /\ exit' = ErrNoBucket
               /\ bucket' = ""
               /\ UNCHANGED <<region, audit, pending>>
          ELSE /\ region' = found.region
               /\ audit' = EmptyMap
               /\ pending' = DOMAIN Playbook
               /\ apc' = "range"
               /\ UNCHANGED <<bucket, exit>>
    /\ UNCHANGED <<names, actions, write, Playbook, Results, idx, output, store, grants, before>>

\* Run: one iteration of the range over the playbook, in the order the map
\* yields its entries
RunCallback ==
    /\ apc = "range"
    /\ UNCHANGED rvars
    /\ UNCHANGED fvars
    /\ \E name \in pending : \E env \in Environment(name) :
          LET ret == Callback(Playbook[name], store, grants, bucket,
                              env.presignErr, env.doErr, env.accepts)
          IN /\ store' = ret.st
             /\ IF ret.panics
                THEN /\ apc' = "panic"
                     /\ UNCHANGED <<audit, pending>>
                ELSE /\ audit' = MapPut(audit, name, ret.val)
                     /\ pending' = pending \ {name}
                     /\ UNCHANGED apc
    /\ UNCHANGED <<names, actions, write, Playbook, Results, idx, bucket, region, exit,
                   output, grants, before>>

\* RunReturn making the audit of this bucket the only entry of Results
RunReturnForgetsOthers ==
    /\ apc = "range"
    /\ UNCHANGED rvars
    /\ UNCHANGED fvars
    /\ pending = {}
    /\ Results' = MapPut(EmptyMap, bucket, audit)
    /\ idx' = idx + 1
    /\ bucket' = ""
    /\ region' = Empty
    /\ audit' = EmptyMap
    /\ apc' = "loop"
    /\ UNCHANGED <<names, actions, write, Playbook, pending, exit, output, store, grants, before>>

\* Run: the range is over; the audit is stored and Run returns nil
RunReturn ==
    /\ apc = "range"
    /\ UNCHANGED rvars
    /\ UNCHANGED fvars
    /\ pending = {}
    /\ Results' = MapPut(Results, bucket, audit)
    /\ idx' = idx + 1
    /\ bucket' = ""
    /\ region' = Empty
    /\ audit' = EmptyMap
    /\ apc' = "loop"
    /\ UNCHANGED <<names, actions, write, Playbook, pending, exit, output, store, grants, before>>

\* the permissions Output files under READ and under WRITE
ReadPerms(action) ==
    {perm \in DOMAIN action : action[perm] /\ perm \in ReadCalls}
WritePerms(action) ==
    {perm \in DOMAIN action : action[perm] /\ perm \in Registered \ ReadCalls}

\* what Output prints for the results res: the buckets with a permission
\* that could be used, each with its READ and WRITE permissions
Rendered(res) ==
    [b \in {x \in DOMAIN res : ReadPerms(res[x]) \cup WritePerms(res[x]) # {}}
        |-> [READ |-> ReadPerms(res[b]), WRITE |-> WritePerms(res[b])]]

\* the command's loop is over: auditor.Output(), and the command returns nil
Output ==
    /\ apc = "loop"
    /\ UNCHANGED rvars
    /\ UNCHANGED fvars
    /\ idx > Len(names)
    /\ output' = Rendered(Results)
    /\ exit' = Nil
    /\ apc' = "returned"
    /\ UNCHANGED <<names, actions, write, Playbook, Results, idx, bucket, region, audit,
                   pending, store, grants, before>>

\* the signal handler installed after NewAuditor: os.Exit(0); the process
\* and what it held are gone, nothing has been printed
Interrupt ==
    /\ apc \in {"loop", "exists", "range"}
    /\ UNCHANGED rvars
    /\ UNCHANGED fvars
    /\ apc' = "exited"
    /\ Playbook' = EmptyMap
    /\ Results' = EmptyMap
    /\ bucket' = ""
    /\ region' = Empty
    /\ audit' = EmptyMap
    /\ pending' = {}
    /\ UNCHANGED <<names, actions, write, idx, exit, output, store, grants, before>>

AuditNext ==
    \/ \E arnErr \in BOOLEAN : NewAuditor(arnErr)
    \/ RunCall
    \/ RunCheckBucketExists
    \/ RunCallback
    \/ RunReturn
    \/ Output
    \/ Interrupt

AuditSpec == AuditInit /\ [][AuditNext]_vars

(***************************************************************************)
(* The functions of the program applied on their own, once, to arguments   *)
(* drawn from the sets below.                                              *)
(***************************************************************************)
\* the buckets the service stores, none of them written to yet
EmptyStore == [b \in DOMAIN Hosted |-> EmptyBucket]

\* a callback of the playbook, the bucket it is given, the verbs the
\* service grants the principal of svc, and what the callback meets
CallbackInputs ==
    UNION {{[fn |-> n, bucket |-> b, grants |-> g, env |-> e] : e \in Environment(n)} :
              n \in Registered, b \in Targets, g \in Principals}

\* what svc.HeadBucket may return, and the regions HeadBucket may be given
ErrorCodes ==
    {"Forbidden", "NoSuchKey", "MissingEndpoint", "MissingRegion", "NoSuchBucket",
     "InvalidBucketName", "NotFound", "BucketRegionError"}
HeadBucketOutcomes == {NoError, OtherErr} \cup {AwsErr(c) : c \in ErrorCodes}
HeadBucketRegions == ProbedRegions \cup {CnNorth1, CnNorthwest1}

HeadBucketInputs ==
    {[fn |-> "HeadBucket", outcome |-> o, region |-> r] :
        o \in HeadBucketOutcomes, r \in HeadBucketRegions}

\* a bucket name, the verbs granted to the principal, and the region given
CheckBucketExistsInputs ==
    {[fn |-> "CheckBucketExists", bucket |-> b, grants |-> g, region |-> r] :
        b \in Targets, g \in Principals, r \in {NoRegion, Empty} \cup ProbedRegions}

\* the URLs GenerateUrlPair may be given: with and without a protocol, with
\* and without a trailing '/', with a path, and a host whose name holds
\* "http"
UrlSlash == <<"a",".","c","o","/">>
UrlHttp == <<"h","t","t","p",":","/","/","a",".","c","o">>
UrlHttps == <<"h","t","t","p","s",":","/","/","a",".","c","o">>
UrlPath == <<"h","t","t","p",":","/","/","a",".","c","o","/","p">>
UrlHttpHost == <<"h","t","t","p","b",".","i","o">>
GenerateUrlPairInputs ==
    {[fn |-> "GenerateUrlPair", url |-> u] :
        u \in {UrlPlain, UrlFull, UrlSlash, UrlHttp, UrlHttps, UrlPath, UrlHttpHost}}

ApplyInit ==
    /\ NewResolver
    /\ NoAuditor
    /\ input \in CallbackInputs \cup HeadBucketInputs \cup CheckBucketExistsInputs
                  \cup GenerateUrlPairInputs
    /\ result = <<>>

\* action.Callback(*svc, bucket)
ApplyCallback ==
    /\ input.fn \in Registered
    /\ result = <<>>
    /\ result' = <<Callback(NewPlayBook[input.fn], EmptyStore, input.grants, input.bucket,
                            input.env.presignErr, input.env.doErr, input.env.accepts)>>
    /\ UNCHANGED <<rvars, avars, input>>

\* HeadBucket(target, region), svc.HeadBucket returning input.outcome
ApplyHeadBucket ==
    /\ input.fn = "HeadBucket"
    /\ result = <<>>
    /\ result' = <<HeadBucket(input.outcome, input.region)>>
    /\ UNCHANGED <<rvars, avars, input>>

\* CheckBucketExists(target, region)
ApplyCheckBucketExists ==
    /\ input.fn = "CheckBucketExists"
    /\ result = <<>>
    /\ result' = <<CheckBucketExists(HeadOf(input.bucket, input.grants), input.region)>>
    /\ UNCHANGED <<rvars, avars, input>>

\* GenerateUrlPair(url)
ApplyGenerateUrlPair ==
    /\ input.fn = "GenerateUrlPair"
    /\ result = <<>>
    /\ result' = <<GenerateUrlPair(input.url)>>
    /\ UNCHANGED <<rvars, avars, input>>

ApplyNext ==
    \/ ApplyGenerateUrlPair
    \/ ApplyCallback
    \/ ApplyHeadBucket
    \/ ApplyCheckBucketExists

ApplySpec == ApplyInit /\ [][ApplyNext]_vars

(***************************************************************************)
(* Properties of the Resolver.                                             *)
(***************************************************************************)
Last(q) == q[Len(q)]
Concrete(b) == b # NoBucket /\ b # SomeBucket
Recorded == 1..Len(Buckets)
Times(err) == Cardinality({i \in 1..Len(returns) : returns[i] = err})
\* no Resolve call is in progress
BetweenCalls == pc = "idle"
\* this step is the return of a Resolve call
Returns == pc # "idle" /\ pc' = "idle"

\* C1: every recorded status with takeover = true holds a concrete bucket
\* name, neither NoBucket nor SomeBucket.
C1_TakeoverHasName ==
    \A i \in Recorded : Buckets[i].Takeover => Concrete(Buckets[i].Bucket)

\* C2: within one Resolve call, once status.Bucket holds a concrete name no
\* later stage replaces it with NoBucket or SomeBucket.
C2_NameNotOverwritten ==
    [][(pc \notin {"idle", "sanity"} /\ Concrete(status.Bucket))
          => Concrete(status'.Bucket)]_vars

\* C3: between calls, TakeoverPossible is the number of recorded statuses
\* whose Takeover is true.
C3_TakeoverCount ==
    BetweenCalls =>
        TakeoverPossible = Cardinality({i \in Recorded : Buckets[i].Takeover})

C3_Witness ==
    /\ BetweenCalls
    /\ Len(Buckets) = 2
    /\ Buckets[1].Takeover
    /\ ~Buckets[2].Takeover
    /\ TakeoverPossible = 1

\* C4: between calls, Endpoints is the number of recorded statuses whose
\* Bucket is not NoBucket.
C4_EndpointCount ==
    BetweenCalls =>
        Endpoints = Cardinality({i \in Recorded : Buckets[i].Bucket # NoBucket})

C4_Witness ==
    /\ BetweenCalls
    /\ Len(Buckets) = 2
    /\ Buckets[1].Bucket = NoBucket
    /\ Buckets[2].Bucket # NoBucket
    /\ Endpoints = 1

\* C5: between calls, TakeoverPossible <= Endpoints <= UrlsProcessed.
C5_CounterOrder ==
    BetweenCalls => TakeoverPossible =< Endpoints /\ Endpoints =< UrlsProcessed

C5_Witness ==
    /\ BetweenCalls
    /\ TakeoverPossible = 1
    /\ Endpoints = 2
    /\ UrlsProcessed = 2

\* C6, as stated: between calls, the number of recorded statuses is
\* UrlsProcessed + UrlsFailed + k, k the number of inputs rejected before the
\* HTTP GET.
C6_AsStated ==
    BetweenCalls =>
        Len(Buckets) = UrlsProcessed + UrlsFailed + Times(ErrAlreadyS3)

\* C6, amended: between calls, the number of recorded statuses is
\* UrlsProcessed - g, g the number of inputs rejected for the Google Cloud
\* Storage header, and it is the number of calls minus UrlsFailed.
C6_StatusCount ==
    BetweenCalls =>
        /\ Len(Buckets) = UrlsProcessed - Times(ErrGCS)
        /\ Len(Buckets) = Len(returns) - UrlsFailed

C6_Witness ==
    /\ BetweenCalls
    /\ returns = <<ErrGCS, Nil>>
    /\ Len(Buckets) = 1
    /\ UrlsProcessed = 2
    /\ UrlsFailed = 1

\* C7: a Resolve call that returns nil has appended exactly one status to
\* those recorded at its entry; a call returns an error only when the input
\* is already an S3 URL, the GET or the body read failed, or the response
\* carries X-GUploader-UploadID; a call that ends with Bucket = NoBucket
\* returns nil and appends that status.
C7_OneStatusPerSuccess ==
    [][Returns =>
         /\ Last(returns') = Nil =>
               /\ Len(Buckets') = Len(entry.Buckets) + 1
               /\ SubSeq(Buckets', 1, Len(entry.Buckets)) = entry.Buckets
         /\ Last(returns') # Nil =>
               \/ Contains(url, AmazonawsCom)
               \/ resp.getErr
               \/ resp.readErr
               \/ resp.guploader # Empty
         /\ (pc = "append" /\ status.Bucket = NoBucket) =>
               /\ Last(returns') = Nil
               /\ Last(Buckets') = status]_vars

C7_Witness ==
    /\ BetweenCalls
    /\ returns = <<Nil, Nil>>
    /\ Len(Buckets) = 2
    /\ Buckets[2].Bucket = NoBucket

\* C8: after a Resolve call that returned an error, UrlsFailed is one more
\* than at its entry and Buckets, Endpoints and TakeoverPossible are as at
\* its entry; so is UrlsProcessed unless the error is the GCS one.
C8_FailureFrame ==
    (BetweenCalls /\ returns # <<>> /\ Last(returns) # Nil) =>
        /\ UrlsFailed = entry.UrlsFailed + 1
        /\ Buckets = entry.Buckets
        /\ Endpoints = entry.Endpoints
        /\ TakeoverPossible = entry.TakeoverPossible
        /\ Last(returns) # ErrGCS => UrlsProcessed = entry.UrlsProcessed

C8_Witness ==
    /\ BetweenCalls
    /\ Len(returns) = 2
    /\ returns[1] = Nil
    /\ returns[2] \in {ErrGet, ErrReadAll}
    /\ Buckets # <<>>
    /\ UrlsProcessed = 1

\* C9: on a fresh Resolver, the first call, when its response carries
\* X-GUploader-UploadID, returns the GCS error, records no status and
\* leaves UrlsFailed = 1.
C9_GcsRejected ==
    [][(pc = "headers" /\ returns = <<>> /\ resp.guploader # Empty /\ pc' # "exited") =>
          /\ pc' = "idle"
          /\ returns' = <<ErrGCS>>
          /\ Buckets' = <<>>
          /\ UrlsFailed' = 1]_vars

C9_Witness ==
    /\ BetweenCalls
    /\ returns = <<ErrGCS>>
    /\ Buckets = <<>>
    /\ UrlsFailed = 1

(***************************************************************************)
(* Properties of the Auditor.                                              *)
(***************************************************************************)
\* C10: no callback of the playbook mutates the target: whoever the
\* principal and whatever the actions, during and after Run(bucket) the
\* service stores the objects, ACL, policy and CORS configuration of every
\* bucket as it did when Run was entered.
C10_NoProbeMutates == store = before

\* C20: the fields the interrupt handler reads, at whatever point of the
\* loop or of a Resolve call, are consistent: TakeoverPossible is the number
\* of statuses read with Takeover true and Endpoints the number of
\* statuses read with Bucket other than NoBucket.
C20_SnapshotConsistent ==
    pc = "exited" =>
        /\ output.TakeoverPossible =
              Cardinality({i \in 1..Len(output.Buckets) : output.Buckets[i].Takeover})
        /\ output.Endpoints =
              Cardinality({i \in 1..Len(output.Buckets) : output.Buckets[i].Bucket # NoBucket})

(***************************************************************************)
(* Properties of the playbook's callbacks.                                 *)
(***************************************************************************)
\* the request the callback fn sends with a checksum that is not its body's
PoisonedRequest(fn, b) ==
    IF fn = "PutObject" THEN PutObjectRequest(b) ELSE PutBucketAclRequest(b)

\* C11: PutObject and PutBucketAcl return true exactly when a response is
\* received and its status is 200 or 400, and return false for every other
\* outcome, a 403 and a transport error without response included.
C11_PoisonedVerdict ==
    (input.fn \in {"PutObject", "PutBucketAcl"} /\ result # <<>>) =>
        LET received == ~input.env.presignErr /\ ~input.env.doErr
            code == S3(EmptyStore, input.grants, PoisonedRequest(input.fn, input.bucket), TRUE).code
        IN /\ ~result[1].panics
           /\ result[1].val = (received /\ code \in {200, 400})

(***************************************************************************)
(* Properties of the RegionProbe.                                          *)
(***************************************************************************)
Applied(fn) == input.fn = fn /\ result # <<>>

\* C13: HeadBucket returns true when svc.HeadBucket returns no error, the
\* code Forbidden outside cn-north-1 and cn-northwest-1, or the code
\* NoSuchKey; for every other error, whatever its type, it returns false.
C13_HeadBucketTable ==
    Applied("HeadBucket") =>
        result[1] = \/ input.outcome = NoError
                    \/ /\ input.outcome = AwsErr("Forbidden")
                       /\ input.region \notin {CnNorth1, CnNorthwest1}
                    \/ input.outcome = AwsErr("NoSuchKey")

\* C14, as stated: on Forbidden, HeadBucket returns false in cn-north-1 and
\* true in any other region.
C14_AsStated ==
    (Applied("HeadBucket") /\ input.outcome = AwsErr("Forbidden")) =>
        result[1] = (input.region # CnNorth1)

\* C14, amended: on Forbidden, HeadBucket returns false in cn-north-1 and in
\* cn-northwest-1, and true in any other region.
C14_ForbiddenByRegion ==
    (Applied("HeadBucket") /\ input.outcome = AwsErr("Forbidden")) =>
        result[1] = (input.region \notin {CnNorth1, CnNorthwest1})

C14_Witness ==
    /\ Applied("HeadBucket")
    /\ input.outcome = AwsErr("Forbidden")
    /\ input.region = CnNorthwest1
    /\ result = <<FALSE>>

\* C15: with the region NoRegion or empty, CheckBucketExists returns
\* (true, r), r the region that hosts the bucket, for a bucket hosted in
\* any region, and (false, "") for a bucket that no region hosts; with
\* another region it returns (HeadBucket(bucket, region), region).
C15_RegionDiscovery ==
    Applied("CheckBucketExists") =>
        IF input.region = NoRegion \/ input.region = Empty
        THEN IF input.bucket \in DOMAIN Hosted
             THEN result[1] = [val |-> TRUE, region |-> Hosted[input.bucket]]
             ELSE result[1] = [val |-> FALSE, region |-> Empty]
        ELSE result[1] =
               [val |-> HeadBucket(HeadOf(input.bucket, input.grants)[input.region],
                                   input.region),
                region |-> input.region]

(***************************************************************************)
(* Properties of the audit command.                                        *)
(***************************************************************************)
\* the callbacks Run has invoked so far, on the bucket in progress and on
\* the buckets stored in Results
Invoked == DOMAIN audit \cup UNION {DOMAIN Results[b] : b \in DOMAIN Results}

\* C12: when the audit command runs without --write and without --perm, no
\* Put* callback is invoked on any bucket; only read callbacks run.
C12_WriteGated ==
    (~write /\ actions = <<>>) => Invoked \subseteq ReadCalls

\* the names of a list
Range(q) == {q[i] : i \in 1..Len(q)}

\* NewAuditor has returned an Auditor, and the process still holds it
HasAuditor ==
    \/ apc \in {"loop", "exists", "range", "panic"}
    \/ apc = "returned" /\ exit # ErrARN

\* C16: the playbook NewAuditor builds has the whole registry as keys when
\* actions is empty, and otherwise exactly the names of actions that are
\* registered; an unknown name gives no entry and no error; each entry is
\* the registry's Action of that name.
C16_PlaybookFilter ==
    /\ HasAuditor =>
          /\ DOMAIN Playbook = IF actions = <<>> THEN Registered
                                ELSE Range(actions) \cap Registered
          /\ \A n \in DOMAIN Playbook : Playbook[n] = NewPlayBook[n]
    /\ exit = ErrARN => apc = "returned" /\ Playbook = EmptyMap

C16_Witness ==
    /\ apc = "loop"
    /\ actions = <<"PutBucketAcl", "NoSuchAction", "PutBucketCors">>
    /\ DOMAIN Playbook = {"PutBucketAcl", "PutBucketCors"}
    /\ exit = ""

\* CheckBucketExists(bucket, NoRegion) reports that the bucket exists
Exists(b) == CheckBucketExists(HeadOf(b, grants), NoRegion).val

\* C17: a Run whose CheckBucketExists reports exists = false returns the
\* error and leaves Results as it was; at every point Results has entries
\* for exactly the buckets whose Run returned nil.
C17_FailedRunFrame ==
    [][/\ (apc = "exists" /\ ~Exists(bucket) /\ apc' # "exited") =>
             /\ apc' = "returned"
             /\ exit' = ErrNoBucket
             /\ Results' = Results
       /\ apc' # "exited" =>
             DOMAIN Results' = {names[i] : i \in 1..(idx' - 1)}]_vars

C17_Witness ==
    /\ apc = "returned"
    /\ exit = ErrNoBucket
    /\ names = <<"first", "missing", "second">>
    /\ DOMAIN Results = {"first"}

\* C18: when Run(bucket) returns nil, Results[bucket] has exactly the names
\* of the playbook as keys, each value being what the callback of that name
\* returned for this bucket (with actions ListObjects and PutObject, list
\* granted and put denied: ListObjects true, PutObject false), and the
\* entries of the other buckets are as they were.
C18_RunRecordsAudit ==
    [][/\ (apc = "range" /\ apc' = "range") =>
             \E n \in pending :
                /\ pending' = pending \ {n}
                /\ DOMAIN audit' = DOMAIN audit \cup {n}
                /\ \A m \in DOMAIN audit : audit'[m] = audit[m]
                /\ \E env \in Environment(n) :
                      audit'[n] = Callback(Playbook[n], store, grants, bucket,
                                           env.presignErr, env.doErr, env.accepts).val
       /\ (apc = "range" /\ apc' = "loop") =>
             /\ DOMAIN Results' = DOMAIN Results \cup {bucket}
             /\ DOMAIN Results'[bucket] = DOMAIN Playbook
             /\ Results'[bucket] = audit
             /\ \A b \in DOMAIN Results \ {bucket} : Results'[b] = Results[b]
             /\ (/\ actions = <<"ListObjects", "PutObject">>
                 /\ "ListObjects" \in grants
                 /\ "PutObject" \notin grants) =>
                   Results'[bucket] = [n \in {"ListObjects", "PutObject"} |-> n = "ListObjects"]]_vars

C18_Witness ==
    /\ apc = "loop"
    /\ names = <<"first", "second">>
    /\ actions = <<"ListObjects", "PutObject">>
    /\ DOMAIN Results = {"first", "second"}
    /\ Results["first"] = [n \in {"ListObjects", "PutObject"} |-> n = "ListObjects"]
    /\ Results["second"] = [n \in {"ListObjects", "PutObject"} |-> n = "ListObjects"]

\* C19: a bucket whose region discovery fails does not end the command:
\* when the command has returned, every bucket of names that exists has
\* been audited and Output has printed the results.
C19_FailureIsPerBucket ==
    (apc = "returned" /\ exit # ErrARN) =>
        /\ \A i \in 1..Len(names) : Exists(names[i]) => names[i] \in DOMAIN Results
        /\ exit = Nil


(***************************************************************************)
(* Properties of the commands' signal handlers.                            *)
(***************************************************************************)
\* C21: when the audit command ends through its signal handler, the handler
\* has rendered the results collected so far: what has been printed is what
\* Output prints for the Results of that moment.
C21_InterruptRenders ==
    [][apc' = "exited" => output' = Rendered(Results)]_vars


(***************************************************************************)
(* Properties of the Resolver's output.                                    *)
(***************************************************************************)
\* the resolve command has output its table, its file and its stats
HasOutput == pc \in {"returned", "exited"}

\* q is p with some of its elements left out, the others in p's order
IsSubSeq(q, p) ==
    \E f \in [1..Len(q) -> 1..Len(p)] :
        /\ \A k \in 1..Len(q) : q[k] = p[f[k]]
        /\ \A k \in 1..(Len(q) - 1) : f[k] < f[k + 1]

\* the bucket names of the recorded statuses whose Takeover is false
NotTakenOver(buckets) ==
    LET kept == {i \in 1..Len(buckets) : ~buckets[i].Takeover}
        nth(k) == CHOOSE i \in kept : Cardinality({j \in kept : j < i}) = k - 1
    IN [k \in 1..Cardinality(kept) |-> buckets[nth(k)].Bucket]

\* C22: every line OutputStats appends to the file is the concrete bucket
\* name of a recorded status whose Takeover is false, in processing order;
\* no line is SomeBucket or NoBucket.
C22_FileHasNamesOnly ==
    HasOutput =>
        /\ \A k \in 1..Len(output.File) : Concrete(output.File[k])
        /\ IsSubSeq(output.File, NotTakenOver(output.Buckets))


(***************************************************************************)
(* Properties of GenerateUrlPair.                                          *)
(***************************************************************************)
\* s starts with a protocol
HasProtocol(s) == IsAt(s, 1, HttpScheme) \/ IsAt(s, 1, HttpsScheme)

\* s without its protocol and without one trailing '/'
Stripped(s) == TrimSuffix(TrimPrefix(TrimPrefix(s, HttpScheme), HttpsScheme), <<"/">>)

\* C23: for every input, the full URL without its protocol and without one
\* trailing '/' is the relative URL, and GenerateUrlPair applied to the
\* relative URL returns that relative URL again.
C23_UrlPairRelation ==
    Applied("GenerateUrlPair") =>
        /\ Stripped(result[1].fullUrl) = result[1].relativeUrl
        /\ GenerateUrlPair(result[1].relativeUrl).relativeUrl = result[1].relativeUrl

\* C24: for every input, the full URL starts with a protocol, http://
\* being prepended to an input that has none, an input that merely holds
\* "http" included; the relative URL is not empty, holds the host only, has
\* no protocol and no trailing '/'.
C24_UrlPairShape ==
    Applied("GenerateUrlPair") =>
        /\ HasProtocol(result[1].fullUrl)
        /\ ~HasProtocol(input.url) => result[1].fullUrl = HttpScheme \o input.url
        /\ result[1].relativeUrl # Empty
        /\ ~HasProtocol(result[1].relativeUrl)
        /\ ~Contains(result[1].relativeUrl, <<"/">>)


(***************************************************************************)
(* Properties of the CNAME branch of Resolve.                              *)
(***************************************************************************)
\* the CNAME that answer a gives for the URL of the call in progress holds
\* ".amazonaws.com"
Hit(a) == Contains(GetCNAME(status.Url, a), DotAmazonawsCom)

\* C25, as stated: whenever the CNAME holds ".amazonaws.com", Resolve goes
\* on to record the status and return, without the third and final checks.
C25_AsStated ==
    [][\A a \in Answers : (SecondCheck(a) /\ Hit(a)) => pc' = "takeover"]_vars

\* C25, amended: when the CNAME holds ".amazonaws.com" and the status has a
\* bucket other than NoBucket after the two patterns, Resolve records the
\* status, adds one to Endpoints and returns nil without the third and the
\* final check; when the bucket is still NoBucket it goes on to the third
\* check.
C25_CnameHitReturns ==
    [][/\ \A a \in Answers : (SecondCheck(a) /\ Hit(a)) =>
             /\ status'.Bucket # NoBucket => pc' = "takeover"
             /\ status'.Bucket = NoBucket => pc' = "third"
       /\ (pc = "takeover" /\ pc' # "exited") =>
             /\ pc' = "cnameEndpoint"
             /\ Buckets' = entry.Buckets
       /\ (pc = "cnameEndpoint" /\ pc' # "exited") =>
             /\ pc' = "cnameAppend"
             /\ Endpoints' = entry.Endpoints + 1
       /\ (pc = "cnameAppend" /\ pc' # "exited") =>
             /\ pc' = "idle"
             /\ Last(returns') = Nil
             /\ Buckets' = Append(entry.Buckets, status)
             /\ Endpoints' = entry.Endpoints + 1]_vars

C25_Witness ==
    /\ BetweenCalls
    /\ returns = <<Nil>>
    /\ Buckets = <<ResolverStatus(UrlPlain, <<"b">>, <<"r">>, FALSE)>>
    /\ Endpoints = 1


\* C29: every status recorded by the CNAME branch has a Bucket other than
\* NoBucket and a Region other than NoRegion; when the CNAME holds
\* ".amazonaws.com" and the Bucket is still NoBucket after the two patterns,
\* the branch records nothing and the third and final checks run.
C29_CnameRecordHasBucket ==
    [][/\ (pc = "cnameAppend" /\ pc' # "exited") =>
             /\ Len(Buckets') = Len(Buckets) + 1
             /\ Last(Buckets').Bucket # NoBucket
             /\ Last(Buckets').Region # NoRegion
       /\ \A a \in Answers : (SecondCheck(a) /\ Hit(a) /\ status'.Bucket = NoBucket) =>
             /\ pc' = "third"
             /\ Buckets' = Buckets
       /\ (pc = "third" /\ pc' # "exited") => pc' = "xml" /\ Buckets' = Buckets]_vars

C29_Witness ==
    /\ BetweenCalls
    /\ returns = <<Nil>>
    /\ Buckets = <<ResolverStatus(UrlPlain, SomeBucket, UsEast1, FALSE)>>

\* the CNAME of the example: example.s3.us-east-1.amazonaws.com
CnameExample ==
    <<"e","x","a","m","p","l","e",".","s","3",".","u","s","-","e","a","s","t","-","1",
      ".","a","m","a","z","o","n","a","w","s",".","c","o","m">>

\* 1 when the body of the call in progress holds "NoSuchBucket", else 0
TakeoverFound == IF BodyContainsNoSuchBucket(bytedata) THEN 1 ELSE 0

\* C26: in the CNAME branch, Takeover is set, and TakeoverPossible
\* incremented by one, exactly when the body holds the literal NoSuchBucket.
\* The CNAME example.s3.us-east-1.amazonaws.com gives the bucket example
\* and the region us-east-1; on a fresh Resolver, the URL a.co with the
\* CNAME b.s3.r.amazonaws.com and such a body is recorded as (a.co, b, r,
\* true) with Endpoints = 1 and TakeoverPossible = 1.
C26_CnameTakeover ==
    [][/\ (pc = "cname" /\ pc' = "takeover") =>
             /\ Expr1Matches(CnameExample) = <<>>
             /\ Expr2Matches(CnameExample) =
                   <<CnameExample, <<"e","x","a","m","p","l","e">>, UsEast1>>
             /\ SecondCheck(Answer(FALSE, CnameVirtual)) =>
                   status'.Bucket = <<"b">> /\ status'.Region = <<"r">>
       /\ (pc = "takeover" /\ pc' # "exited") =>
             /\ status'.Takeover = BodyContainsNoSuchBucket(bytedata)
             /\ TakeoverPossible' = TakeoverPossible + TakeoverFound
       /\ (pc = "cnameAppend" /\ pc' # "exited") =>
             /\ Last(Buckets').Takeover = BodyContainsNoSuchBucket(bytedata)
             /\ TakeoverPossible' = entry.TakeoverPossible + TakeoverFound
             /\ (/\ returns = <<>>
                 /\ status.Url = UrlPlain
                 /\ status.Bucket = <<"b">>
                 /\ status.Region = <<"r">>
                 /\ BodyContainsNoSuchBucket(bytedata)) =>
                   /\ Buckets' = <<ResolverStatus(UrlPlain, <<"b">>, <<"r">>, TRUE)>>
                   /\ Endpoints' = 1
                   /\ TakeoverPossible' = 1]_vars

C26_Witness ==
    /\ BetweenCalls
    /\ returns = <<Nil>>
    /\ Buckets = <<ResolverStatus(UrlPlain, <<"b">>, <<"r">>, TRUE)>>
    /\ Endpoints = 1
    /\ TakeoverPossible = 1


(***************************************************************************)
(* Properties of the final check of Resolve.                               *)
(***************************************************************************)
\* the elements the final check reads in the body of the call in progress
ErrTag == SelectElement(bytedata.roots, "Error")
CodeTag == SelectElement(ErrTag.child, "Code")
BucketNameTag == SelectElement(ErrTag.child, "BucketName")
ResTag == SelectElement(bytedata.roots, "ListBucketResult")
NameTag == SelectElement(ResTag.child, "Name")

\* C27: in the final check, for a body that parses, the children read being
\* present: an Error root with Code NoSuchBucket sets Bucket to the text of
\* BucketName and Takeover to true and adds one to TakeoverPossible; Code
\* PermanentRedirect sets Bucket to the text of BucketName and leaves
\* Takeover; any other Code sets Bucket to SomeBucket; a ListBucketResult
\* root sets Bucket to the text of Name.  A body that does not parse leaves
\* the status of the first three checks as it is, and that status is
\* recorded and nil returned.
C27_FinalCheck ==
    [][/\ (pc = "xml" /\ pc' # "exited" /\ ~bytedata.parses) =>
             /\ pc' = "end"
             /\ status' = status
             /\ TakeoverPossible' = TakeoverPossible
       /\ (pc = "xml" /\ pc' # "exited" /\ bytedata.parses /\ ErrTag.nil) =>
             /\ status' = status
             /\ TakeoverPossible' = TakeoverPossible
       /\ (pc = "xml" /\ pc' # "exited" /\ bytedata.parses /\ ~ErrTag.nil /\ ~CodeTag.nil) =>
             IF CodeTag.text = NoSuchBucketLit
             THEN ~BucketNameTag.nil =>
                     /\ status' = [status EXCEPT !.Bucket = BucketNameTag.text,
                                                 !.Takeover = TRUE]
                     /\ TakeoverPossible' = TakeoverPossible + 1
             ELSE IF CodeTag.text = PermanentRedirectLit
             THEN ~BucketNameTag.nil =>
                     /\ status' = [status EXCEPT !.Bucket = BucketNameTag.text]
                     /\ status'.Takeover = FALSE
                     /\ TakeoverPossible' = TakeoverPossible
             ELSE /\ status' = [status EXCEPT !.Bucket = SomeBucket]
                  /\ TakeoverPossible' = TakeoverPossible
       /\ (pc = "list" /\ pc' # "exited" /\ ~ResTag.nil /\ ~NameTag.nil) =>
             status' = [status EXCEPT !.Bucket = NameTag.text]
       /\ (pc = "list" /\ pc' # "exited" /\ ResTag.nil) => status' = status
       /\ (pc = "end" /\ pc' # "exited") =>
             /\ pc' = "append"
             /\ status' = status
             /\ TakeoverPossible' = TakeoverPossible
       /\ (pc = "append" /\ pc' # "exited") =>
             /\ Buckets' = Append(entry.Buckets, status)
             /\ Last(returns') = Nil]_vars

C27_Witness ==
    /\ BetweenCalls
    /\ returns = <<Nil, Nil>>
    /\ Buckets = <<ResolverStatus(UrlPlain, NameDeleted, NoRegion, TRUE),
                   ResolverStatus(UrlPlain, NameDeleted, NoRegion, FALSE)>>
    /\ TakeoverPossible = 1


\* C28: Resolve never ends abnormally: whatever the response, a body that
\* parses with an Error root lacking Code or BucketName or with a
\* ListBucketResult root lacking Name included, the call returns nil or an
\* error.
C28_NoPanic == pc # "panic"


(***************************************************************************)
(* Properties of the Auditor with no registered action.                    *)
(***************************************************************************)
\* actions names something, and nothing that is registered
NoneRegistered == actions # <<>> /\ Range(actions) \cap Registered = {}

\* C30: when actions is not empty and none of its names is registered, the
\* playbook NewAuditor builds is empty, not the whole registry; a Run that
\* finds its bucket then invokes no callback and stores an empty map for
\* the bucket.
C30_EmptyPlaybook ==
    [][NoneRegistered =>
          /\ (apc = "start" /\ apc' = "loop") => Playbook' = EmptyMap
          /\ (apc = "exists" /\ apc' = "range") => pending' = {}
          /\ (apc = "range" /\ apc' # "exited") =>
                /\ apc' = "loop"
                /\ audit = EmptyMap
                /\ store' = store
                /\ Results' = MapPut(Results, bucket, EmptyMap)]_vars

C30_Witness ==
    /\ apc = "loop"
    /\ actions = <<"NoSuchAction">>
    /\ names = <<"first", "second">>
    /\ Playbook = EmptyMap
    /\ Results = [b \in {"first", "second"} |-> EmptyMap]

=============================================================================
